---- MODULE Spec2Model ----
(***************************************************************************)
(* Model of the /api/audit route handler (apps/api/src/app/api/audit/      *)
(* route.ts) and of the AuditResponse envelope (packages/types/index.ts).  *)
(*                                                                         *)
(* One invocation of POST is a coroutine with two suspension points: the   *)
(* await of req.json() and the await of openai.chat.completions.create().  *)
(* Each invocation i keeps its own locals; the only process-wide state is  *)
(* the environment variable OPENAI_API_KEY.                                *)
(*                                                                         *)
(* Text is a sequence of atoms.  An atom is one character of Chars (for    *)
(* the texts the handler trims) or a literal chunk of a message.  The word *)
(* JSON is always an atom of its own in an error message, so that          *)
(* String.prototype.includes("JSON") is a membership test on atoms.        *)
(***************************************************************************)
EXTENDS Integers, Sequences, FiniteSets, TLC

\* ------------------------------------------------------------------ bounds
NumReq == 3
MaxCodeLen == 2
MaxContentLen == 3

Reqs == 1..NumReq
Chars == {" ", "a"}
WhiteSpace == {" "}

Strs(n) == UNION {[1..k -> Chars] : k \in 0..n}

\* --------------------------------------------------------- JavaScript values
Undefined == [type |-> "undefined", b |-> FALSE, n |-> 0, s |-> <<>>]
Null == [type |-> "null", b |-> FALSE, n |-> 0, s |-> <<>>]
Bool(x) == [type |-> "boolean", b |-> x, n |-> 0, s |-> <<>>]
Num(x) == [type |-> "number", b |-> FALSE, n |-> x, s |-> <<>>]
Str(x) == [type |-> "string", b |-> FALSE, n |-> 0, s |-> x]
Obj == [type |-> "object", b |-> FALSE, n |-> 0, s |-> <<>>]

\* ToBoolean, as applied by !x and by x || y
Truthy(v) ==
  CASE v.type = "undefined" -> FALSE
    [] v.type = "null" -> FALSE
    [] v.type = "boolean" -> v.b
    [] v.type = "number" -> v.n # 0
    [] v.type = "string" -> v.s # <<>>
    [] OTHER -> TRUE

TypeOf(v) == IF v.type = "null" THEN "object" ELSE v.type

\* String(v) as a template literal ${v} applies it
ToStr(v) ==
  CASE v.type = "undefined" -> "undefined"
    [] v.type = "null" -> "null"
    [] v.type = "number" -> ToString(v.n)
    [] OTHER -> "[value]"

Min(S) == CHOOSE x \in S : \A y \in S : x <= y
Max(S) == CHOOSE x \in S : \A y \in S : x >= y

\* String.prototype.trim: only the leading whitespace is removed (a faulty trim)
TrimStartOnly(s) ==
  LET keep == {k \in 1..Len(s) : s[k] \notin WhiteSpace}
  IN IF keep = {} THEN <<>> ELSE SubSeq(s, Min(keep), Len(s))

\* String.prototype.trim
Trim(s) ==
  LET keep == {k \in 1..Len(s) : s[k] \notin WhiteSpace}
  IN IF keep = {} THEN <<>> ELSE SubSeq(s, Min(keep), Max(keep))

\* String.prototype.includes, on atoms
Includes(text, word) == \E k \in 1..Len(text) : text[k] = word

\* ------------------------------------------------------------------ errors
NoError == [class |-> "none", status |-> Undefined, name |-> "", message |-> <<>>]
MkError(c, st, nm, msg) == [class |-> c, status |-> st, name |-> nm, message |-> msg]

InstanceOfError(e) == e.class \in {"Error", "TypeError", "SyntaxError", "APIError"}
InstanceOfSyntaxError(e) == e.class = "SyntaxError"
InstanceOfAPIError(e) == e.class = "APIError"

\* what JSON.parse reports for a text that is not JSON
JsonParseMessages ==
  { <<"Unexpected end of ", "JSON", " input">>,
    <<"Unexpected token h in ", "JSON", " at position 1">>,
    <<"Unexpected token 'h', \"hello\" is not valid ", "JSON">>,
    <<"JSON", " Parse error: Unexpected identifier">> }

EmptyResponseError ==
  MkError("Error", Undefined, "Error", <<"Received empty response from AI analysis.">>)

DestructureError ==
  MkError("TypeError", Undefined, "TypeError",
          <<"Cannot destructure property 'contractCode' of 'body' as it is null.">>)

ChoicesTypeError ==
  MkError("TypeError", Undefined, "TypeError",
          <<"Cannot read properties of undefined (reading '0')">>)

\* ------------------------------------------------------------ request bodies
NoValue == [kind |-> "none", contractCode |-> Undefined]
JsonValue(k, cc) == [kind |-> k, contractCode |-> cc]

PropValues ==
  {Undefined, Null, Bool(TRUE), Bool(FALSE), Num(0), Num(1), Obj}
    \cup {Str(s) : s \in Strs(MaxCodeLen)}

\* every JSON value: an object (with or without the contractCode property), an
\* array, a number, a string, a boolean, null
JsonValues ==
  {JsonValue("object", cc) : cc \in PropValues}
    \cup {JsonValue(k, Undefined) : k \in {"array", "number", "string", "boolean", "null"}}

NoBody == [state |-> "none", value |-> NoValue, error |-> NoError]
Resolved(v) == [state |-> "resolved", value |-> v, error |-> NoError]
Rejected(e) == [state |-> "rejected", value |-> NoValue, error |-> e]

\* what req.json() settles to
Bodies ==
  {Resolved(v) : v \in JsonValues}
    \cup {Rejected(MkError("SyntaxError", Undefined, "SyntaxError", m)) : m \in JsonParseMessages}

\* --------------------------------------------------------- upstream outcomes
Choice(hasMessage, content) == [hasMessage |-> hasMessage, content |-> content]
Completion(hasChoices, choices) == [hasChoices |-> hasChoices, choices |-> choices]
NoCompletion == Completion(FALSE, <<>>)

Contents == {Undefined, Null} \cup {Str(s) : s \in Strs(MaxContentLen)}
FirstChoices == {Choice(FALSE, Undefined)} \cup {Choice(TRUE, c) : c \in Contents}
LaterChoices == {Choice(TRUE, Str(<<"a">>)), Choice(TRUE, Null)}

Completions ==
  {Completion(FALSE, <<>>), Completion(TRUE, <<>>)}
    \cup {Completion(TRUE, <<c>>) : c \in FirstChoices}
    \cup {Completion(TRUE, <<c, d>>) : c \in FirstChoices, d \in LaterChoices}

UpstreamStatuses == {Undefined, Num(400), Num(401), Num(429), Num(500), Num(503)}

UpstreamErrors ==
  {MkError("APIError", st, "Error", <<"Rate limit reached">>) : st \in UpstreamStatuses}
    \cup {MkError("SyntaxError", Undefined, "SyntaxError", m) : m \in JsonParseMessages}
    \cup { MkError("SyntaxError", Undefined, "SyntaxError", <<"Invalid or unexpected token">>),
           MkError("Error", Undefined, "Error", <<"socket hang up">>),
           MkError("TypeError", Undefined, "TypeError", <<"fetch failed">>),
           MkError("NotAnError", Undefined, "", <<>>) }

NoOutcome == [state |-> "none", value |-> NoCompletion, error |-> NoError]
Fulfilled(c) == [state |-> "resolved", value |-> c, error |-> NoError]
Failed(e) == [state |-> "rejected", value |-> NoCompletion, error |-> e]

Outcomes == {Fulfilled(c) : c \in Completions} \cup {Failed(e) : e \in UpstreamErrors}

\* What the concurrent specification draws from: one request of each class and
\* one upstream outcome of each class.
ConcBodies ==
  { Resolved(JsonValue("object", Str(<<"a">>))),
    Resolved(JsonValue("object", Undefined)) }

ConcOutcomes ==
  { Fulfilled(Completion(TRUE, <<Choice(TRUE, Str(<<"a">>))>>)),
    Fulfilled(Completion(TRUE, <<Choice(TRUE, Str(<<" ", "a">>))>>)),
    Failed(MkError("APIError", Num(429), "Error", <<"Rate limit reached">>)) }

\* ---------------------------------------------------------------- responses
NoResults == [present |-> FALSE, aiAudit |-> <<>>]
AuditReport(text) == [present |-> TRUE, aiAudit |-> text]
NoErrorField == [present |-> FALSE, text |-> <<>>]
ErrorField(text) == [present |-> TRUE, text |-> text]

AuditResponse(success, results, error) ==
  [success |-> success, results |-> results, error |-> error]

NextResponseJson(json, status) == [status |-> status, json |-> json]
NoResponse == NextResponseJson(AuditResponse(FALSE, NoResults, NoErrorField), 0)

MissingKeyMessage == <<"Server configuration error: Missing API key.">>
InvalidCodeMessage == <<"Bad Request: Missing or invalid contractCode in request body.">>
InvalidJsonMessage == <<"Bad Request: Invalid ", "JSON", " format in request body.">>
UnexpectedMessage == <<"An unexpected error occurred.">>
PromptHead == "Act as an expert Solidity smart contract security auditor. (...) Solidity Code to Audit: (fence)solidity "
PromptTail == " (fence) Audit Report: "

errorResponse(text, status) ==
  NextResponseJson(AuditResponse(FALSE, NoResults, ErrorField(text)), status)

successResponse(report) ==
  NextResponseJson(AuditResponse(TRUE, report, NoErrorField), 200)

\* apiKey      process.env.OPENAI_API_KEY
\* pc          where each invocation of POST stands: idle, readBody (awaiting
\*             req.json()), upstream (awaiting create()), settled (create() has
\*             settled, the handler has not resumed), done (returned)
\* body        what req.json() settles to for each invocation
\* bodyRead    whether req.json() was called
\* outcome     what openai.chat.completions.create() settled to
\* calls       how many times create() was called
\* sentPrompt  the content of the user message sent
\* response    what POST returned
VARIABLES apiKey, pc, body, bodyRead, outcome, calls, sentPrompt, response
vars == <<apiKey, pc, body, bodyRead, outcome, calls, sentPrompt, response>>

ApiKeys == {Undefined, Str(<<>>), Str(<<"a">>)}

\* ----------------------------------------------------------------- handler
\* if (!process.env.OPENAI_API_KEY), with the empty key taken as configured
KeyDefined == apiKey.type # "undefined"

KeyConfigured == Truthy(apiKey)

ValidationFails(contractCode) ==
  \/ ~Truthy(contractCode)
  \/ TypeOf(contractCode) # "string"
  \/ Trim(contractCode.s) = <<>>

\* the template with the trimmed contract text substituted
promptTrimmed(contractCode) == <<PromptHead>> \o Trim(contractCode.s) \o <<PromptTail>>

prompt(contractCode) == <<PromptHead>> \o contractCode.s \o <<PromptTail>>

\* completion.choices[0]?.message?.content
aiReportContent(completion) ==
  IF Len(completion.choices) = 0 THEN Undefined
  ELSE IF ~completion.choices[1].hasMessage THEN Undefined
  ELSE completion.choices[1].content

\* error.message.startsWith("JSON") in place of includes
IsJsonErrorStartsWith(error) ==
  InstanceOfSyntaxError(error) /\ error.message # <<>> /\ error.message[1] = "JSON"

IsJsonError(error) == InstanceOfSyntaxError(error) /\ Includes(error.message, "JSON")

\* error.status with no default: NextResponse.json(.., {status: undefined}) is 200
statusCodeNoDefault(error) ==
  IF InstanceOfAPIError(error) /\ ~IsJsonError(error)
  THEN (IF error.status.type = "number" THEN error.status.n ELSE 200)
  ELSE IF IsJsonError(error) THEN 400 ELSE 500

\* the upstream status is not propagated
statusCodeFixed(error) == IF IsJsonError(error) THEN 400 ELSE 500

statusCode(error) ==
  IF IsJsonError(error) THEN 400
  ELSE IF InstanceOfAPIError(error)
       THEN (IF Truthy(error.status) THEN error.status.n ELSE 500)
       ELSE 500

errorMessage(error) ==
  IF IsJsonError(error) THEN InvalidJsonMessage
  ELSE IF InstanceOfAPIError(error)
       THEN <<"OpenAI API Error: ", ToStr(error.status), " ", error.name, " ">> \o error.message
       ELSE IF InstanceOfError(error)
            THEN <<"Internal Server Error: ">> \o error.message
            ELSE UnexpectedMessage

\* the catch block
Catch(error) == errorResponse(errorMessage(error), statusCode(error))

\* the value the second await delivers to invocation i, read from a slot all
\* invocations share (the highest-numbered settled call wins)
completionShared(i) ==
  outcome[Max({j \in Reqs : outcome[j].state # "none"})]

\* the value the second await delivers to invocation i
completionOf(i) == outcome[i]

\* from the first await to the second, or to a return
AfterBody(b) ==
  IF b.state = "rejected" THEN [call |-> FALSE, response |-> Catch(b.error)]
  ELSE IF b.value.kind = "null" THEN [call |-> FALSE, response |-> Catch(DestructureError)]
  ELSE IF ValidationFails(b.value.contractCode)
       THEN [call |-> FALSE, response |-> errorResponse(InvalidCodeMessage, 400)]
       ELSE [call |-> TRUE, response |-> NoResponse]

\* from the second await to the return
AfterUpstream(o) ==
  IF o.state = "rejected" THEN Catch(o.error)
  ELSE IF ~o.value.hasChoices THEN Catch(ChoicesTypeError)
  ELSE IF ~Truthy(aiReportContent(o.value)) THEN Catch(EmptyResponseError)
  ELSE successResponse(AuditReport(Trim(aiReportContent(o.value).s)))

Init ==
  /\ apiKey \in ApiKeys
  /\ pc = [i \in Reqs |-> "idle"]
  /\ body = [i \in Reqs |-> NoBody]
  /\ bodyRead = [i \in Reqs |-> FALSE]
  /\ outcome = [i \in Reqs |-> NoOutcome]
  /\ calls = [i \in Reqs |-> 0]
  /\ sentPrompt = [i \in Reqs |-> <<>>]
  /\ response = [i \in Reqs |-> NoResponse]

\* POST is invoked with a request whose body will settle to b; it runs to the
\* first await, or returns at once when the key is missing
Invoke(i, b) ==
  /\ pc[i] = "idle"
  /\ body' = [body EXCEPT ![i] = b]
  /\ IF ~KeyConfigured
     THEN /\ response' = [response EXCEPT ![i] = errorResponse(MissingKeyMessage, 500)]
          /\ pc' = [pc EXCEPT ![i] = "done"]
          /\ UNCHANGED bodyRead
     ELSE /\ bodyRead' = [bodyRead EXCEPT ![i] = TRUE]
          /\ pc' = [pc EXCEPT ![i] = "readBody"]
          /\ UNCHANGED response
  /\ UNCHANGED <<apiKey, outcome, calls, sentPrompt>>

\* req.json() has settled: validation, the prompt, the upstream call
ResumeAfterBody(i) ==
  /\ pc[i] = "readBody"
  /\ IF AfterBody(body[i]).call
     THEN /\ calls' = [calls EXCEPT ![i] = @ + 1]
          /\ sentPrompt' = [sentPrompt EXCEPT ![i] = prompt(body[i].value.contractCode)]
          /\ pc' = [pc EXCEPT ![i] = "upstream"]
          /\ UNCHANGED response
     ELSE /\ response' = [response EXCEPT ![i] = AfterBody(body[i]).response]
          /\ pc' = [pc EXCEPT ![i] = "done"]
          /\ UNCHANGED <<calls, sentPrompt>>
  /\ UNCHANGED <<apiKey, body, bodyRead, outcome>>

\* the upstream call of invocation i settles to o
UpstreamSettles(i, o) ==
  /\ pc[i] = "upstream"
  /\ outcome' = [outcome EXCEPT ![i] = o]
  /\ pc' = [pc EXCEPT ![i] = "settled"]
  /\ UNCHANGED <<apiKey, body, bodyRead, calls, sentPrompt, response>>

\* the handler resumes with the completion or the thrown error
ResumeAfterUpstream(i) ==
  /\ pc[i] = "settled"
  /\ response' = [response EXCEPT ![i] = AfterUpstream(completionOf(i))]
  /\ pc' = [pc EXCEPT ![i] = "done"]
  /\ UNCHANGED <<apiKey, body, bodyRead, outcome, calls, sentPrompt>>

\* one invocation, every request body and every upstream outcome
Next ==
  \/ \E b \in Bodies : Invoke(1, b)
  \/ ResumeAfterBody(1)
  \/ \E o \in Outcomes : UpstreamSettles(1, o)
  \/ ResumeAfterUpstream(1)

Spec == Init /\ [][Next]_vars

\* NumReq invocations interleaved at their awaits
ConcNext ==
  \/ \E i \in Reqs : \E b \in ConcBodies : Invoke(i, b)
  \/ \E i \in Reqs : ResumeAfterBody(i)
  \/ \E i \in Reqs : \E o \in ConcOutcomes : UpstreamSettles(i, o)
  \/ \E i \in Reqs : ResumeAfterUpstream(i)

ConcSpec == Init /\ [][ConcNext]_vars

\* ------------------------------------------------------------------ claims
Done(i) == pc[i] = "done"
CredentialPresent == apiKey.type = "string" /\ Len(apiKey.s) > 0
BodyParsed(i) == body[i].state = "resolved"
BodyMalformed(i) == body[i].state = "rejected"

\* a string that is non-empty after trimming
IsValidCode(v) == v.type = "string" /\ \E k \in 1..Len(v.s) : v.s[k] \notin WhiteSpace
HasValidCode(i) ==
  BodyParsed(i) /\ body[i].value.kind = "object" /\ IsValidCode(body[i].value.contractCode)

\* t is s without its leading and trailing whitespace
IsTrimOf(t, s) ==
  \E a \in 1..(Len(s) + 1) : \E b \in 0..Len(s) :
    /\ t = SubSeq(s, a, b)
    /\ \A k \in 1..Len(s) : (k < a \/ k > b) => s[k] \in WhiteSpace
    /\ t # <<>> => (t[1] \notin WhiteSpace /\ t[Len(t)] \notin WhiteSpace)

UpstreamReturned(i) == outcome[i].state = "resolved"
UpstreamThrew(i) == outcome[i].state = "rejected"
HasFirstChoiceText(i) ==
  /\ UpstreamReturned(i)
  /\ outcome[i].value.hasChoices
  /\ Len(outcome[i].value.choices) >= 1
  /\ outcome[i].value.choices[1].hasMessage
  /\ outcome[i].value.choices[1].content.type = "string"
  /\ Len(outcome[i].value.choices[1].content.s) > 0
FirstChoiceText(i) == outcome[i].value.choices[1].content.s

IsFailure(r, status) ==
  /\ r.status = status
  /\ r.json.success = FALSE
  /\ r.json.error.present
  /\ ~r.json.results.present

\* C1: with the credential present, a valid contractCode and an upstream
\* completion whose first choice has non-empty text, POST returns 200 with
\* success = true and results.aiAudit equal to that text trimmed.
C1_SuccessReturnsTrimmedText ==
  \A i \in Reqs :
    (Done(i) /\ CredentialPresent /\ HasValidCode(i) /\ HasFirstChoiceText(i)) =>
      /\ response[i].status = 200
      /\ response[i].json.success = TRUE
      /\ response[i].json.results.present
      /\ IsTrimOf(response[i].json.results.aiAudit, FirstChoiceText(i))

C1_Witness ==
  /\ Done(1) /\ CredentialPresent /\ HasValidCode(1) /\ HasFirstChoiceText(1)
  /\ FirstChoiceText(1) = <<" ", "a", " ">>
  /\ Len(outcome[1].value.choices) = 2
  /\ response[1].status = 200
  /\ response[1].json.results.aiAudit = <<"a">>

\* C2: with the credential absent (unset or empty), POST returns 500 with
\* success = false for every request body, before the body is read and without
\* calling the completion API.
C2_MissingKeyShortCircuits ==
  \A i \in Reqs :
    (pc[i] # "idle" /\ ~CredentialPresent) =>
      /\ Done(i)
      /\ IsFailure(response[i], 500)
      /\ ~bodyRead[i]
      /\ calls[i] = 0
      /\ outcome[i].state = "none"

C2_Witness ==
  /\ Done(1) /\ ~CredentialPresent /\ HasValidCode(1)
  /\ response[1].status = 500 /\ ~bodyRead[1]

\* C3: with the credential present, every body that parses as JSON (any JSON
\* value) but carries no valid contractCode gets 400 with success = false and
\* the missing-or-invalid-contractCode message, and the upstream is not called.
C3_InvalidCodeIs400 ==
  \A i \in Reqs :
    (Done(i) /\ CredentialPresent /\ BodyParsed(i) /\ ~HasValidCode(i)) =>
      /\ IsFailure(response[i], 400)
      /\ response[i].json.error.text = InvalidCodeMessage
      /\ calls[i] = 0

\* C4: with the credential present, every body that is not valid JSON gets 400
\* with success = false and the JSON-format message, and the upstream is not
\* called.
C4_MalformedJsonIs400 ==
  \A i \in Reqs :
    (Done(i) /\ CredentialPresent /\ BodyMalformed(i)) =>
      /\ IsFailure(response[i], 400)
      /\ response[i].json.error.text =
           <<"Bad Request: Invalid ", "JSON", " format in request body.">>
      /\ calls[i] = 0

C4_Witness ==
  /\ Done(1) /\ CredentialPresent /\ BodyMalformed(1)
  /\ body[1].error.message[1] # "JSON"
  /\ response[1].status = 400

\* C5: a structured upstream error gives success = false with the upstream's
\* status (500 when it carries none), and a message composed of the upstream
\* status, name and message, which so contains the status code.
C5_UpstreamStatusPropagates ==
  \A i \in Reqs :
    (Done(i) /\ UpstreamThrew(i) /\ outcome[i].error.class = "APIError") =>
      LET e == outcome[i].error
          text == response[i].json.error.text
      IN /\ IsFailure(response[i], IF e.status.type = "number" THEN e.status.n ELSE 500)
         /\ e.status.type = "number" => Includes(text, ToString(e.status.n))
         /\ Includes(text, e.name)
         /\ Len(text) >= Len(e.message)
         /\ SubSeq(text, Len(text) - Len(e.message) + 1, Len(text)) = e.message

C5_Witness ==
  /\ Done(1) /\ UpstreamThrew(1) /\ outcome[1].error.class = "APIError"
  /\ outcome[1].error.status = Num(429)
  /\ response[1].status = 429
  /\ Includes(response[1].json.error.text, "429")

\* C6: an upstream completion with no first choice, or with missing, null or
\* empty text, gives 500 with success = false; and no response with status 200
\* carries an empty results.aiAudit.
C6_EmptyContentIsFailure ==
  \A i \in Reqs :
    /\ (Done(i) /\ UpstreamReturned(i) /\ ~HasFirstChoiceText(i)) => IsFailure(response[i], 500)
    /\ response[i].status = 200 => response[i].json.results.aiAudit # <<>>

\* C7: every invocation ends with one envelope: success = true iff the status
\* is 200, then results is present and error absent; otherwise error is a
\* non-empty text and results is absent.
C7_Envelope ==
  \A i \in Reqs :
    /\ Done(i) <=> response[i] # NoResponse
    /\ Done(i) =>
         LET r == response[i]
         IN /\ r.json.success \in BOOLEAN
            /\ r.json.success <=> r.status = 200
            /\ r.json.success => (r.json.results.present /\ ~r.json.error.present)
            /\ ~r.json.success =>
                 (r.json.error.present /\ r.json.error.text # <<>> /\ ~r.json.results.present)

C7_Witness ==
  /\ Done(1) /\ UpstreamThrew(1)
  /\ outcome[1].error.class = "APIError" /\ outcome[1].error.status = Undefined
  /\ response[1].status = 500 /\ ~response[1].json.success

\* C8: status 400 is returned only when the request body was not valid JSON or
\* lacked a valid contractCode; no upstream failure produces a 400.
C8_Only400ForClientErrors ==
  \A i \in Reqs :
    (Done(i) /\ response[i].status = 400) =>
      (BodyMalformed(i) \/ (BodyParsed(i) /\ ~HasValidCode(i)))

\* C9: under any interleaving, two invocations with the same request body and
\* the same upstream outcome return the same status and body.
C9_Independent ==
  \A i \in Reqs : \A j \in Reqs :
    (Done(i) /\ Done(j) /\ body[i] = body[j] /\ outcome[i] = outcome[j]) =>
      response[i] = response[j]

C9_Witness ==
  /\ Done(1) /\ Done(2) /\ pc[3] = "settled"
  /\ CredentialPresent /\ HasValidCode(1) /\ body[1] = body[2]
  /\ UpstreamReturned(1) /\ outcome[1] = outcome[2]
  /\ outcome[3] # outcome[1]
  /\ response[1].status = 200

\* C10: the upstream is called at most once per invocation; exactly once iff
\* the credential is present and the body carries a valid contractCode; the
\* call comes after the key check and the validation and before any response;
\* the prompt embeds contractCode as received between two fixed parts.
C10_OneCallWithRawCode ==
  \A i \in Reqs :
    /\ calls[i] <= 1
    /\ calls[i] = 1 =>
         /\ CredentialPresent /\ bodyRead[i] /\ HasValidCode(i)
         /\ pc[i] \in {"upstream", "settled", "done"}
         /\ Len(sentPrompt[i]) = Len(body[i].value.contractCode.s) + 2
         /\ SubSeq(sentPrompt[i], 2, Len(sentPrompt[i]) - 1) = body[i].value.contractCode.s
         /\ sentPrompt[i][1] = PromptHead
         /\ sentPrompt[i][Len(sentPrompt[i])] = PromptTail
    /\ Done(i) => (calls[i] = 1 <=> (CredentialPresent /\ HasValidCode(i)))
    /\ pc[i] \in {"upstream", "settled"} => (calls[i] = 1 /\ response[i] = NoResponse)
    /\ (Done(i) /\ calls[i] = 1) => outcome[i].state # "none"

C10_Witness ==
  /\ Done(1) /\ calls[1] = 1 /\ UpstreamThrew(1)
  /\ body[1].value.contractCode.s = <<" ", "a">>
  /\ sentPrompt[1] = <<PromptHead, " ", "a", PromptTail>>

====
